---- MODULE Spec2Model ----
(***************************************************************************)
(* Model of the Wikipedia Cirrus extractor (cirrusextractor.py and its     *)
(* older variant cirrus-extract.py).                                       *)
(*                                                                         *)
(* Strings are sequences of symbols.  A symbol is a single character       *)
(* ("a", " ", "/", ...) or, in article texts, one of the literal words the *)
(* French clean-up expressions look for.  Accented letters are written     *)
(* without their accent and U+00A0 is written "NBSP".                      *)
(***************************************************************************)
EXTENDS Integers, Sequences, FiniteSets, TLC

\* ------------------------------------------------------------------------
\* Bounds of the model
\* ------------------------------------------------------------------------
MaxPairs == 2
MaxChunks == 4
MaxTitleLen == 3

\* ------------------------------------------------------------------------
\* Regular expressions
\* ------------------------------------------------------------------------
NBSP == "NBSP"
NL == "\n"

\* \s of the re module, over the symbols used here
Whitespace == {" ", NL, "\t", NBSP}

\* the character class of the first substitution of title_to_filename
SepChars == {" ", NBSP, "/", ",", "?", "!", "(", ")", ";", ":", "'", "[", "]"}

\* the literal words of REGICES_FR
WDebut == "Debut de la boite de navigation du chapitre"
WFin == "fin de la boite de navigation du chapitre"
WEnRaison == "En raison de limitations techniques, la typographie souhaitable du"
WNaPu == ", n'a pu etre restituee correctement ci-dessus."
WPrecedent == "Precedent"
WSuivant == "Suivant"

\* first position >= i of s whose symbol is not in set S (Len(s)+1 if none):
\* where a greedy S* started at i stops
RECURSIVE SkipRun(_, _, _)
SkipRun(S, s, i) ==
    IF i <= Len(s) /\ s[i] \in S THEN SkipRun(S, s, i + 1) ELSE i

\* s has symbol c at position i
At(s, i, c) == i >= 1 /\ i <= Len(s) /\ s[i] = c

\* "$" without re.MULTILINE: the end of the string, or just before a
\* newline that ends the string
AtDollar(s, i) == i = Len(s) + 1 \/ (i = Len(s) /\ s[i] = NL)

\* ".*?" followed by the rest of the "limitations" expression, tried from
\* position j: the first place where the closing words match, no newline
\* being crossed.  0 when there is none.
RECURSIVE LazyDots(_, _)
LazyDots(s, j) ==
    IF j > Len(s) THEN 0
    ELSE IF At(s, j, WNaPu) /\ At(s, j + 1, " ") THEN j + 2
    ELSE IF s[j] = NL THEN 0
    ELSE LazyDots(s, j + 1)

\* "\s*\|*\s+Suivant\s+>\s*$" tried at position i.  The first \s* is greedy
\* and gives one blank back to \s+ when no "|" follows it.
MatchSuivant(s, i) ==
    LET a == SkipRun(Whitespace, s, i)
        b == SkipRun({"|"}, s, a)
        c == SkipRun(Whitespace, s, b)
        blankBefore == IF b > a THEN c > b ELSE a > i
        d == SkipRun(Whitespace, s, c + 1)
        e == SkipRun(Whitespace, s, d + 1)
    IN  IF blankBefore /\ At(s, c, WSuivant) /\ d > c + 1 /\ At(s, d, ">")
           /\ e = Len(s) + 1
        THEN e ELSE 0

\* "\s*<\s+Precedent\s*(\||$)" tried at position i
MatchPrecedent(s, i) ==
    LET a == SkipRun(Whitespace, s, i)
        b == SkipRun(Whitespace, s, a + 1)
        c == SkipRun(Whitespace, s, b + 1)
    IN  IF At(s, a, "<") /\ b > a + 1 /\ At(s, b, WPrecedent)
        THEN IF At(s, c, "|") THEN c + 1
             ELSE IF c = Len(s) + 1 THEN c
             ELSE 0
        ELSE 0

\* the navigation phrase, a literal
MatchNavigation(s, i) ==
    IF At(s, i, WDebut) /\ At(s, i + 1, " ") /\ At(s, i + 2, WFin)
       /\ At(s, i + 3, " ")
    THEN i + 4 ELSE 0

\* "En raison ... du .*?, n'a pu ... ci-dessus. "
MatchLimitations(s, i) ==
    IF At(s, i, WEnRaison) /\ At(s, i + 1, " ") THEN LazyDots(s, i + 2) ELSE 0

\* "[ NBSP/,?!();:'\[\]]+"
MatchSeps(s, i) ==
    IF i <= Len(s) /\ s[i] \in SepChars
    THEN SkipRun(SepChars, s, i) ELSE 0

\* "-+"
MatchHyphens(s, i) ==
    IF At(s, i, "-") THEN SkipRun({"-"}, s, i) ELSE 0

\* "^-|-$"
MatchOuterHyphen(s, i) ==
    IF At(s, i, "-") /\ (i = 1 \/ AtDollar(s, i + 1)) THEN i + 1 ELSE 0

\* "-$"
MatchTrailingHyphen(s, i) ==
    IF At(s, i, "-") /\ AtDollar(s, i + 1) THEN i + 1 ELSE 0

\* the compiled expressions of REGICES_FR and of title_to_filename, by name:
\* the position after the match that starts at i, 0 if there is no match
MatchEnd(rule, s, i) ==
    CASE rule = "navigation" -> MatchNavigation(s, i)
      [] rule = "limitations" -> MatchLimitations(s, i)
      [] rule = "precedent" -> MatchPrecedent(s, i)
      [] rule = "suivant" -> MatchSuivant(s, i)
      [] rule = "seps" -> MatchSeps(s, i)
      [] rule = "hyphens" -> MatchHyphens(s, i)
      [] rule = "trailing-hyphen" -> MatchTrailingHyphen(s, i)

\* re.sub(rule, repl, s): every non-overlapping match, leftmost first,
\* replaced by repl; the scan goes on after the match
RECURSIVE SubFrom(_, _, _, _)
SubFrom(rule, repl, s, i) ==
    IF i > Len(s) THEN <<>>
    ELSE LET e == MatchEnd(rule, s, i)
         IN  IF e > i THEN repl \o SubFrom(rule, repl, s, e)
             ELSE <<s[i]>> \o SubFrom(rule, repl, s, i + 1)

re_sub(rule, repl, s) == SubFrom(rule, repl, s, 1)

\* re.search(rule, s) finds a match
Matches(rule, s) == \E i \in 1..Len(s) : MatchEnd(rule, s, i) > i

\* ------------------------------------------------------------------------
\* clean_text and title_to_filename
\* ------------------------------------------------------------------------
\* the four rules in the order of the REGICES_FR table
clean_text_table_order(text) ==
    LET t1 == re_sub("navigation", <<>>, text)
        t2 == re_sub("limitations", <<>>, t1)
        t3 == re_sub("precedent", <<>>, t2)
        t4 == re_sub("suivant", <<>>, t3)
    IN  t4

\* the last substitution applied to the argument, not to the running result
clean_text_unchained(text) ==
    LET t1 == re_sub("suivant", <<>>, text)
        t2 == re_sub("precedent", <<>>, t1)
        t3 == re_sub("navigation", <<>>, t2)
        t4 == re_sub("limitations", <<>>, text)
    IN  t4

clean_text(text) ==
    LET t1 == re_sub("suivant", <<>>, text)
        t2 == re_sub("precedent", <<>>, t1)
        t3 == re_sub("navigation", <<>>, t2)
        t4 == re_sub("limitations", <<>>, t3)
    IN  t4

\* str.lower() on the letters used here
lower(c) ==
    CASE c = "A" -> "a"
      [] c = "B" -> "b"
      [] c = "C" -> "c"
      [] OTHER -> c

TxtExt == <<".", "t", "x", "t">>

title_to_filename(title) ==
    LET t1 == re_sub("seps", <<"-">>, title)
        t2 == re_sub("hyphens", <<"-">>, t1)
        t3 == re_sub("trailing-hyphen", <<>>, t2)
        t4 == [i \in 1..Len(t3) |-> lower(t3[i])]
    IN  t4 \o TxtExt

\* ------------------------------------------------------------------------
\* Values the dump processor works on
\* ------------------------------------------------------------------------
Dash == <<"-">>

\* os.path.basename
RECURSIVE LastSlash(_, _)
LastSlash(p, i) == IF i = 0 \/ p[i] = "/" THEN i ELSE LastSlash(p, i - 1)

basename(p) == SubSeq(p, LastSlash(p, Len(p)) + 1, Len(p))

\* str.startswith
startswith(s, prefix) ==
    Len(s) >= Len(prefix) /\ SubSeq(s, 1, Len(prefix)) = prefix

\* a lone surrogate (the JSON escape \ud800), which str.encode("utf-8") and
\* a write to sys.stdout reject
Surrogate == "\\ud800"

\* text.encode("utf-8") succeeds
Encodable(s) == \A i \in 1..Len(s) : s[i] # Surrogate

\* a line as readline returns it: the empty string at the end of the
\* stream, otherwise a JSON document or something json.loads rejects
EmptyLine == [kind |-> "empty", value |-> <<>>]
MalformedLine == [kind |-> "malformed", value |-> <<>>]
JsonLine(obj) == [kind |-> "json", value |-> obj]

\* json.loads that takes the empty string for a document
json_ok_lenient(line) == line.kind # "malformed"

\* json.loads(line) returns (it raises on "" and on malformed text)
json_ok(line) == line.kind = "json"
json_loads(line) == line.value

\* obj[key] raises KeyError
KeyError(obj, key) == key \notin DOMAIN obj

\* the index lines of the modelled streams
IndexObjs ==
    { [index |-> ("_type" :> "page" @@ "_id" :> "1")],
      [index |-> ("_type" :> "redirect" @@ "_id" :> "2")],
      [index |-> ("_type" :> "page")] }

TitleAB == <<"A", "/", "B">>
Titleab == <<"a", " ", "b">>
TitleC == <<"C">>
TextA == <<"a">>
TextSuivant == <<"b", " ", WSuivant, " ", ">">>
TextBad == <<"c", Surrogate>>
OldContent == <<"o", "l", "d">>

\* the content lines of the modelled streams
ContentObjs ==
    { [namespace |-> 0, title |-> TitleAB, text |-> TextA, language |-> "fr"],
      [namespace |-> 0, title |-> Titleab, text |-> TextSuivant, language |-> "fr"],
      [namespace |-> 0, title |-> TitleC, text |-> TextSuivant, language |-> "fr"],
      [namespace |-> 0, title |-> TitleC, text |-> TextBad, language |-> "fr"],
      [namespace |-> 0, title |-> TitleAB, text |-> TextBad, language |-> "fr"],
      [namespace |-> 1, title |-> TitleC, text |-> TextA, language |-> "fr"],
      [namespace |-> 1, title |-> TitleC, text |-> TextA],
      [namespace |-> 0, text |-> TextA, language |-> "fr"],
      [namespace |-> 0, title |-> TitleC, language |-> "fr"],
      [title |-> TitleC, text |-> TextA, language |-> "fr"] }

Lines == {JsonLine(o) : o \in IndexObjs \cup ContentObjs} \cup {MalformedLine}

InputFiles == {Dash, <<"f", "r", "w", "-", "x", ".", "g", "z">>}
OutPaths == {Dash, <<"o", "/", "f", "r", "w">>, <<"o", "/", "e", "n", "w">>}
Scripts == {"cirrusextractor.py", "cirrus-extract.py"}

\* ------------------------------------------------------------------------
\* State
\* ------------------------------------------------------------------------
VARIABLES
    script,      \* which of the two scripts runs
    input_file,  \* process_dump's arguments
    out_path,
    pc,          \* "start", "loop", "content", "filter", "done", "failed"
    inp_open,    \* the source stream is open
    consumed,    \* the lines readline has returned so far, in order
    eof,         \* readline has returned the empty string
    count,       \* the local count of cirrusextractor.py
    index,       \* the locals index and content
    content,
    files,       \* the target directory: file name -> content
    stdout,      \* what has been written to sys.stdout, one entry per write
    decoded,     \* pairs for which both json.loads calls returned
    nwrites,     \* calls of sys.stdout.write and of open(..., "wb")
    err,         \* the exception that ended the run, "" if none
    retval,      \* what process_dump returned
    title,       \* arguments and results of the functions called on their own
    fname,
    text,
    cleaned,
    recleaned,
    fpc

dump_vars == <<script, input_file, out_path, pc, inp_open, consumed, eof,
               count, index, content, files, stdout, decoded, nwrites, err,
               retval>>
fun_vars == <<title, fname, text, cleaned, recleaned, fpc>>
vars == <<dump_vars, fun_vars>>

NoObj == <<>>

\* the target directory before the run: one file is already there
InitialFiles == (title_to_filename(TitleAB) :> OldContent)

InitDump ==
    /\ script \in Scripts
    /\ input_file \in InputFiles
    /\ out_path \in OutPaths
    /\ pc = "start"
    /\ inp_open = FALSE
    /\ consumed = <<>>
    /\ eof = FALSE
    /\ count = 0
    /\ index = NoObj
    /\ content = NoObj
    /\ files = InitialFiles
    /\ stdout = <<>>
    /\ decoded = 0
    /\ nwrites = 0
    /\ err = ""
    /\ retval = "unset"

IdleFun ==
    /\ title = <<>>
    /\ fname = <<>>
    /\ text = <<>>
    /\ cleaned = <<>>
    /\ recleaned = <<>>
    /\ fpc = "idle"

Init == InitDump /\ IdleFun

\* ------------------------------------------------------------------------
\* process_dump
\* ------------------------------------------------------------------------
HasCount == script = "cirrusextractor.py"

\* raise: the exception leaves process_dump; nothing in it closes inp
Raise(e) ==
    /\ pc' = "failed"
    /\ err' = e

\* inp = sys.stdin or gzip.open(input_file); count = 0
Open ==
    /\ pc = "start"
    /\ inp_open' = TRUE
    /\ count' = 0
    /\ pc' = "loop"
    /\ UNCHANGED fun_vars
    /\ UNCHANGED <<script, input_file, out_path, consumed, eof, index, content,
                   files, stdout, decoded, nwrites, err, retval>>

\* a count incremented only after the end-of-stream test
CountAtBreakLate == count

\* count += 1 runs before the end-of-stream test, also in the last round
CountAtBreak == IF HasCount THEN count + 1 ELSE count

\* count += 1; line = inp.readline(); if not line: break
EndOfStream ==
    /\ pc = "loop"
    /\ count' = CountAtBreak
    /\ eof' = TRUE
    /\ pc' = "done"
    /\ retval' = "None"
    /\ UNCHANGED fun_vars
    /\ UNCHANGED <<script, input_file, out_path, inp_open, consumed, index,
                   content, files, stdout, decoded, nwrites, err>>

\* count += 1; line = inp.readline(); index = json.loads(line)
ReadIndexLine(line) ==
    /\ pc = "loop"
    /\ Len(consumed) < 2 * MaxPairs
    /\ count' = IF HasCount THEN count + 1 ELSE count
    /\ consumed' = Append(consumed, line)
    /\ IF json_ok(line)
       THEN /\ index' = json_loads(line)
            /\ pc' = "content"
            /\ err' = err
       ELSE /\ index' = index
            /\ Raise("JSONDecodeError")
    /\ UNCHANGED fun_vars
    /\ UNCHANGED <<script, input_file, out_path, inp_open, eof, content, files,
                   stdout, decoded, nwrites, retval>>

\* content = json.loads(inp.readline()); doc_type = ...; doc_id = ...;
\* language = content["language"]
ReadContentLine(line) ==
    /\ pc = "content"
    /\ IF line = EmptyLine
       THEN eof' = TRUE /\ consumed' = consumed
       ELSE eof' = eof /\ consumed' = Append(consumed, line)
    /\ IF ~json_ok(line)
       THEN /\ Raise("JSONDecodeError")
            /\ UNCHANGED <<content, decoded>>
       ELSE /\ content' = json_loads(line)
            /\ decoded' = decoded + 1
            /\ IF \/ KeyError(index, "index")
                  \/ KeyError(index["index"], "_type")
                  \/ KeyError(index["index"], "_id")
                  \/ KeyError(json_loads(line), "language")
               THEN Raise("KeyError")
               ELSE pc' = "filter" /\ err' = err
    /\ UNCHANGED fun_vars
    /\ UNCHANGED <<script, input_file, out_path, inp_open, count, index, files,
                   stdout, nwrites, retval>>

\* the pair passes "doc_type == 'page' and content['namespace'] == 0"
Qualifies(idx, c) ==
    /\ idx["index"]["_type"] = "page"
    /\ c["namespace"] = 0

\* the test raises: namespace is only looked up for a page
FilterRaises(idx, c) ==
    idx["index"]["_type"] = "page" /\ KeyError(c, "namespace")

\* the if is false: back to the top of the loop
Skip ==
    /\ pc = "filter"
    /\ IF FilterRaises(index, content)
       THEN Raise("KeyError")
       ELSE /\ ~Qualifies(index, content)
            /\ pc' = "loop"
            /\ err' = err
    /\ UNCHANGED fun_vars
    /\ UNCHANGED <<script, input_file, out_path, inp_open, consumed, eof, count,
                   index, content, files, stdout, decoded, nwrites, retval>>

\* a stream mode that normalizes like file mode
StreamTextNormalized(c) == clean_text(c["text"])

\* the text written to sys.stdout: content["text"] as it is
StreamText(c) == c["text"]

\* the three sys.stdout.write calls, each of which may raise
EmitStream ==
    /\ pc = "filter"
    /\ ~FilterRaises(index, content)
    /\ Qualifies(index, content)
    /\ out_path = Dash
    /\ LET w1 == Append(stdout, <<NL>>)
           w2 == Append(w1, content["title"] \o <<NL>>)
           w3 == Append(w2, StreamText(content) \o <<NL>>)
       IN  IF KeyError(content, "title")
           THEN stdout' = w1 /\ nwrites' = nwrites + 1 /\ Raise("KeyError")
           ELSE IF ~Encodable(content["title"])
           THEN stdout' = w1 /\ nwrites' = nwrites + 2
                /\ Raise("UnicodeEncodeError")
           ELSE IF KeyError(content, "text")
           THEN stdout' = w2 /\ nwrites' = nwrites + 2 /\ Raise("KeyError")
           ELSE IF ~Encodable(content["text"])
           THEN stdout' = w2 /\ nwrites' = nwrites + 3
                /\ Raise("UnicodeEncodeError")
           ELSE stdout' = w3 /\ nwrites' = nwrites + 3 /\ pc' = "loop"
                /\ err' = err
    /\ UNCHANGED fun_vars
    /\ UNCHANGED <<script, input_file, out_path, inp_open, consumed, eof, count,
                   index, content, files, decoded, retval>>

\* text = clean_text(content["text"]) under an fr directory, else the text
Normalized(c) ==
    IF script = "cirrusextractor.py" /\ startswith(basename(out_path), <<"f", "r">>)
    THEN clean_text(c["text"])
    ELSE c["text"]

\* an open that keeps what the file holds (mode "ab")
OpenForAppend(fs, name) ==
    [n \in DOMAIN fs \cup {name} |-> IF n \in DOMAIN fs THEN fs[n] ELSE <<>>]

\* open(out_fname, "wb") creates or truncates the file
Truncate(fs, name) ==
    [n \in DOMAIN fs \cup {name} |-> IF n = name THEN <<>> ELSE fs[n]]

\* o.write(data) on the file just opened (data goes after what the file
\* holds), then the with block closes it
WriteFile(fs, name, data) ==
    [n \in DOMAIN fs |-> IF n = name THEN fs[n] \o data ELSE fs[n]]

\* title = title_to_filename(...); text = ...; with open(out_fname, "wb")
\* as o: o.write(text.encode("utf-8")).  The open comes first, the encode
\* after it.  The echo of the path and the progress line that follow the
\* write are left to the command-line side and are not modelled.
EmitFile ==
    /\ pc = "filter"
    /\ ~FilterRaises(index, content)
    /\ Qualifies(index, content)
    /\ out_path # Dash
    /\ IF KeyError(content, "title") \/ KeyError(content, "text")
       THEN /\ Raise("KeyError")
            /\ UNCHANGED <<files, nwrites>>
       ELSE LET name == title_to_filename(content["title"])
                data == Normalized(content)
            IN  /\ nwrites' = nwrites + 1
                /\ IF Encodable(data)
                   THEN /\ files' = WriteFile(Truncate(files, name), name, data)
                        /\ pc' = "loop"
                        /\ err' = err
                   ELSE /\ files' = Truncate(files, name)
                        /\ Raise("UnicodeEncodeError")
    /\ UNCHANGED fun_vars
    /\ UNCHANGED <<script, input_file, out_path, inp_open, consumed, eof, count,
                   index, content, stdout, decoded, retval>>

NextDump ==
    \/ Open
    \/ \E line \in Lines : ReadIndexLine(line)
    \/ EndOfStream
    \/ \E line \in Lines \cup {EmptyLine} : ReadContentLine(line)
    \/ Skip
    \/ EmitStream
    \/ EmitFile

Next == NextDump

Spec == Init /\ [][Next]_vars

\* ------------------------------------------------------------------------
\* title_to_filename and clean_text called on their own
\* ------------------------------------------------------------------------
TitleChars == {"A", "b", " ", "/", "-", NL}

RECURSIVE SeqsUpTo(_, _)
SeqsUpTo(S, n) ==
    IF n = 0 THEN {<<>>}
    ELSE LET shorter == SeqsUpTo(S, n - 1)
         IN  shorter \cup {Append(t, c) : t \in shorter, c \in S}

TitleABC == <<"A", "/", "B", ",", " ", "C", "!">>
TitleLeadTrail ==
    <<" ", " ", "l", "e", "a", "d", "-", "-", "t", "r", "a", "i", "l", "-",
      " ", " ">>

Titles == SeqsUpTo(TitleChars, MaxTitleLen) \cup {TitleABC, TitleLeadTrail}

\* pieces of article text: plain symbols and the phrases of REGICES_FR
Chunks ==
    { <<"a">>, <<" ">>, <<NL>>, <<"|">>,
      <<"<", " ", WPrecedent>>,
      <<WSuivant, " ", ">">>,
      <<WDebut, " ">>,
      <<WFin, " ">>,
      <<WEnRaison, " ">>,
      <<WNaPu, " ">> }

RECURSIVE ConcatsUpTo(_, _)
ConcatsUpTo(S, n) ==
    IF n = 0 THEN {<<>>}
    ELSE LET shorter == ConcatsUpTo(S, n - 1)
         IN  shorter \cup {t \o c : t \in shorter, c \in S}

Texts == ConcatsUpTo(Chunks, MaxChunks)

IdleDump ==
    /\ script = "cirrusextractor.py"
    /\ input_file = Dash
    /\ out_path = Dash
    /\ pc = "idle"
    /\ inp_open = FALSE
    /\ consumed = <<>>
    /\ eof = FALSE
    /\ count = 0
    /\ index = NoObj
    /\ content = NoObj
    /\ files = <<>>
    /\ stdout = <<>>
    /\ decoded = 0
    /\ nwrites = 0
    /\ err = ""
    /\ retval = "unset"

InitFun ==
    /\ IdleDump
    /\ \/ title \in Titles /\ text = <<>> /\ fpc = "title"
       \/ title = <<>> /\ text \in Texts /\ fpc = "text"
    /\ fname = <<>>
    /\ cleaned = <<>>
    /\ recleaned = <<>>

\* fname = title_to_filename(title)
CallTitleToFilename ==
    /\ fpc = "title"
    /\ fname' = title_to_filename(title)
    /\ fpc' = "named"
    /\ UNCHANGED <<title, text, cleaned, recleaned>>
    /\ UNCHANGED dump_vars

\* cleaned = clean_text(text)
CallCleanText ==
    /\ fpc = "text"
    /\ cleaned' = clean_text(text)
    /\ fpc' = "cleaned"
    /\ UNCHANGED <<title, text, fname, recleaned>>
    /\ UNCHANGED dump_vars

\* recleaned = clean_text(cleaned)
CallCleanTextAgain ==
    /\ fpc = "cleaned"
    /\ recleaned' = clean_text(cleaned)
    /\ fpc' = "recleaned"
    /\ UNCHANGED <<title, text, fname, cleaned>>
    /\ UNCHANGED dump_vars

NextFun ==
    \/ CallTitleToFilename
    \/ CallCleanText
    \/ CallCleanTextAgain

SpecFun == InitFun /\ [][NextFun]_vars

\* ------------------------------------------------------------------------
\* The stream read so far, as records
\* ------------------------------------------------------------------------
\* a line that holds an Index Record: {"index": {"_type": .., "_id": ..}}
IsIndexRecord(line) ==
    /\ line.kind = "json"
    /\ "index" \in DOMAIN line.value
    /\ {"_type", "_id"} \subseteq DOMAIN line.value["index"]

\* a line that holds a Content Record with all its fields, in valid UTF-8
IsContentRecord(line) ==
    /\ line.kind = "json"
    /\ {"namespace", "title", "text", "language"} \subseteq DOMAIN line.value
    /\ Encodable(line.value["title"])
    /\ Encodable(line.value["text"])

\* every line read so far is the record its position calls for
WellFormedSoFar ==
    \A i \in 1..Len(consumed) :
        IF i % 2 = 1 THEN IsIndexRecord(consumed[i])
        ELSE IsContentRecord(consumed[i])

IndexOfPair(k) == consumed[2 * k - 1].value
ContentOfPair(k) == consumed[2 * k].value

\* pair k is a page of namespace 0
PairQualifies(k) ==
    /\ IndexOfPair(k)["index"]["_type"] = "page"
    /\ ContentOfPair(k)["namespace"] = 0

\* ------------------------------------------------------------------------
\* C1  Lines are consumed two at a time and in order, line 2k-1 as index and
\* line 2k as content: after k rounds 2k lines have been read and k pairs
\* decoded, and the run stops cleanly only at the end of the stream.  An end
\* of stream after an index line (an odd number of lines) ends the run with a
\* decode failure.  As long as every line read is the well-formed record its
\* position calls for, nothing else makes the run fail.
\* ------------------------------------------------------------------------
C1_Pairing ==
    /\ pc \in {"loop", "filter", "done"} => Len(consumed) = 2 * decoded
    /\ pc = "content" =>
          /\ Len(consumed) = 2 * decoded + 1
          /\ index = consumed[Len(consumed)].value
    /\ pc = "filter" =>
          /\ index = IndexOfPair(decoded)
          /\ content = ContentOfPair(decoded)
    /\ pc = "done" => eof
    /\ eof /\ Len(consumed) % 2 = 1 =>
          /\ pc = "failed"
          /\ err = "JSONDecodeError"
          /\ 2 * decoded = Len(consumed) - 1
    /\ pc = "failed" /\ WellFormedSoFar => eof /\ Len(consumed) % 2 = 1

C1_Witness ==
    /\ pc = "done"
    /\ WellFormedSoFar
    /\ Len(consumed) = 4
    /\ decoded = 2

\* ------------------------------------------------------------------------
\* C2  A decoded pair is emitted exactly when it is a page of namespace 0;
\* any other decoded pair, whatever other fields its content record has or
\* lacks, raises no failure, writes nothing and leads to the next round.
\* ------------------------------------------------------------------------
C2_FilterClaim ==
    [][ /\ ( /\ pc = "content"
             /\ decoded' = decoded + 1
             /\ {"_type", "_id"} \subseteq DOMAIN index["index"]
             /\ "namespace" \in DOMAIN content'
             /\ ~Qualifies(index, content') )
           => pc' = "filter"
        /\ (pc = "filter" /\ "namespace" \in DOMAIN content)
           => /\ (nwrites' > nwrites) <=> Qualifies(index, content)
              /\ ~Qualifies(index, content)
                 => pc' = "loop" /\ files' = files /\ stdout' = stdout
      ]_vars

\* ------------------------------------------------------------------------
\* C3  When the run has ended, cleanly or by a failure, the source stream
\* that process_dump opened (the gzip reader) is closed.
\* ------------------------------------------------------------------------
C3_ClosedAtExit ==
    input_file # Dash /\ pc \in {"done", "failed"} => ~inp_open

\* ------------------------------------------------------------------------
\* C4  (as claimed) At clean termination the count equals the number of
\* pairs decoded.
\* ------------------------------------------------------------------------
C4_CountIsPairs == HasCount /\ pc = "done" => count = decoded

\* C4  (amended) The count never decreases and grows by one at the top of
\* every round, for an emitted and for a filtered-out pair alike, and once
\* more in the round that meets the end of the stream: at clean termination
\* it is the number of pairs decoded plus one, and process_dump returns None.
C4_CountIsRounds ==
    /\ [](HasCount =>
            /\ pc = "start" => count = 0
            /\ pc \in {"loop", "filter"} => count = decoded
            /\ pc = "content" => count = decoded + 1
            /\ pc = "done" => count = decoded + 1 /\ retval = "None")
    /\ [][count' >= count /\ count' <= count + 1]_vars

C4_Witness ==
    /\ HasCount
    /\ pc = "done"
    /\ decoded = 2
    /\ count = 3
    /\ PairQualifies(1)
    /\ ~PairQualifies(2)

\* ------------------------------------------------------------------------
\* C5  In file mode a step that ends in a failure leaves the directory as it
\* was, or leaves the complete file of the failed record in it.
\* ------------------------------------------------------------------------
C5_AllOrNothing ==
    [][ (out_path # Dash /\ pc # "failed" /\ pc' = "failed")
        => \/ files' = files
           \/ /\ pc = "filter"
              /\ {"title", "text"} \subseteq DOMAIN content
              /\ LET name == title_to_filename(content["title"])
                 IN  files' = [n \in DOMAIN files \cup {name} |->
                                 IF n = name THEN Normalized(content)
                                 ELSE files[n]]
      ]_vars

\* ------------------------------------------------------------------------
\* C6  After a clean run in file mode, a file whose name some qualifying
\* record's title sanitizes to holds exactly the (possibly normalized) text
\* of the last such record; every other file is as it was before the run.
\* ------------------------------------------------------------------------
\* some qualifying pair among the first k is written to name
WrittenTo(name, k) ==
    \E j \in 1..k :
        PairQualifies(j) /\ title_to_filename(ContentOfPair(j)["title"]) = name

\* the text of the last qualifying pair among the first k written to name
RECURSIVE LastTextFor(_, _)
LastTextFor(name, k) ==
    IF PairQualifies(k) /\ title_to_filename(ContentOfPair(k)["title"]) = name
    THEN IF script = "cirrusextractor.py"
            /\ startswith(basename(out_path), <<"f", "r">>)
         THEN clean_text(ContentOfPair(k)["text"])
         ELSE ContentOfPair(k)["text"]
    ELSE LastTextFor(name, k - 1)

ProducedNames ==
    {title_to_filename(ContentOfPair(j)["title"]) :
        j \in {i \in 1..decoded : PairQualifies(i)}}

C6_LastWriteWins ==
    pc = "done" /\ out_path # Dash =>
        /\ DOMAIN files = DOMAIN InitialFiles \cup ProducedNames
        /\ \A name \in DOMAIN files :
              IF WrittenTo(name, decoded)
              THEN files[name] = LastTextFor(name, decoded)
              ELSE files[name] = InitialFiles[name]

C6_Witness ==
    /\ pc = "done"
    /\ out_path # Dash
    /\ decoded = 2
    /\ PairQualifies(1)
    /\ PairQualifies(2)
    /\ ContentOfPair(1)["title"] # ContentOfPair(2)["title"]
    /\ ContentOfPair(1)["text"] # ContentOfPair(2)["text"]
    /\ title_to_filename(ContentOfPair(1)["title"])
         = title_to_filename(ContentOfPair(2)["title"])

\* ------------------------------------------------------------------------
\* C7  In stream mode, whenever the run is between two rounds or has ended
\* cleanly, sys.stdout holds one block (blank line, title, text as read) per
\* qualifying pair read so far, in input order, and nothing else.
\* ------------------------------------------------------------------------
RECURSIVE Blocks(_)
Blocks(k) ==
    IF k = 0 THEN <<>>
    ELSE Blocks(k - 1) \o
         (IF PairQualifies(k)
          THEN << <<NL>>,
                  ContentOfPair(k)["title"] \o <<NL>>,
                  ContentOfPair(k)["text"] \o <<NL>> >>
          ELSE <<>>)

C8_Idempotent == fpc = "recleaned" => recleaned = cleaned

AnyRuleMatches(t) ==
    \E rule \in {"suivant", "precedent", "navigation", "limitations"} :
        Matches(rule, t)

\* C8  (amended) clean_text leaves a text unchanged exactly when none of the
\* four rules matches it; a second pass changes the result of the first
\* exactly when a rule matches that result, which deleting matches can bring
\* about.
C8_UnchangedIffNoMatch ==
    /\ fpc \in {"cleaned", "recleaned"} =>
          (cleaned = text <=> ~AnyRuleMatches(text))
    /\ fpc = "recleaned" =>
          (recleaned = cleaned <=> ~AnyRuleMatches(cleaned))

C8_Witness ==
    /\ fpc = "recleaned"
    /\ cleaned # text
    /\ ~AnyRuleMatches(cleaned)
    /\ recleaned = cleaned
    /\ Len(cleaned) > 0

\* ------------------------------------------------------------------------
\* C9  (as claimed) "A/B, C!" becomes "a-b-c.txt" and "  lead--trail-  "
\* becomes "lead-trail.txt".
\* ------------------------------------------------------------------------
NameABC == <<"a", "-", "b", "-", "c", ".", "t", "x", "t">>
NameLeadTrail ==
    <<"l", "e", "a", "d", "-", "t", "r", "a", "i", "l", ".", "t", "x", "t">>

C9_Examples ==
    fpc = "named" =>
        /\ title = TitleABC => fname = NameABC
        /\ title = TitleLeadTrail => fname = NameLeadTrail

\* the name without its extension
Stem(name) == SubSeq(name, 1, Len(name) - Len(TxtExt))

\* C9  (amended) "A/B, C!" becomes "a-b-c.txt" and "  lead--trail-  " becomes
\* "-lead-trail.txt".  In every file name the stem has no two hyphens in a
\* row and does not end in a hyphen, so inner runs of separators become one
\* hyphen and a run at the end leaves none; a run at the start of a title
\* that goes on with an ordinary character leaves one leading hyphen.
C9_LeadingHyphenKept ==
    fpc = "named" =>
        /\ title = TitleABC => fname = NameABC
        /\ title = TitleLeadTrail => fname = <<"-">> \o NameLeadTrail
        /\ SubSeq(fname, Len(fname) - Len(TxtExt) + 1, Len(fname)) = TxtExt
        /\ \A i \in 1..(Len(Stem(fname)) - 1) :
              ~(Stem(fname)[i] = "-" /\ Stem(fname)[i + 1] = "-")
        /\ Stem(fname) # <<>> => Stem(fname)[Len(Stem(fname))] # "-"
        /\ \A i \in 1..Len(Stem(fname)) : Stem(fname)[i] \notin SepChars
        /\ ( /\ title # <<>>
             /\ title[1] \in SepChars \cup {"-"}
             /\ \E i \in 1..Len(title) : title[i] \notin SepChars \cup {"-", NL} )
           => fname[1] = "-"

C9_Witness ==
    /\ fpc = "named"
    /\ title = TitleLeadTrail
    /\ fname = <<"-">> \o NameLeadTrail

\* ------------------------------------------------------------------------
\* C10  (as claimed) clean_text applies navigation, limitations, precedent,
\* suivant, in this order, each to the result of the one before.
\* ------------------------------------------------------------------------
RECURSIVE FoldRules(_, _)
FoldRules(rules, t) ==
    IF rules = <<>> THEN t
    ELSE FoldRules(Tail(rules), re_sub(Head(rules), <<>>, t))

C10_TableOrder ==
    fpc = "cleaned" =>
        cleaned = FoldRules(<<"navigation", "limitations", "precedent",
                              "suivant">>, text)

\* C10  (amended) clean_text applies suivant, precedent, navigation,
\* limitations, in this order, each to the result of the one before.
C10_CodeOrder ==
    fpc = "cleaned" =>
        cleaned = FoldRules(<<"suivant", "precedent", "navigation",
                              "limitations">>, text)

C10_Witness ==
    /\ fpc = "cleaned"
    /\ cleaned # text
    /\ cleaned # FoldRules(<<"navigation", "limitations", "precedent",
                             "suivant">>, text)

====
